---- MODULE Spec2Model ----
(***************************************************************************)
(* Model of firmware/openclaw-esp32s3-audio/src/main.cpp: a single-thread  *)
(* Arduino sketch that turns serial lines and BOOT-button presses into     *)
(* chat requests to a gateway.  The thread of control is modelled by pc;   *)
(* the hardware (UART, GPIO, millis(), Wi-Fi, HTTP peer) is the            *)
(* environment, whose inputs are the parameters of the actions.            *)
(***************************************************************************)
EXTENDS Integers, Sequences, FiniteSets, TLC

(***************************************************************************)
(* Program constants.                                                      *)
(***************************************************************************)
kMaxInputLine == 512
kDebounceMs == 60
kWifiPollMs == 500
kWifiMaxAttempts == 80
kLoopDelayMs == 10
kSetupDelayMs == 500
kHttpErrorFloor == 400
Uint8 == 256

LOW == 0
HIGH == 1
Levels == {LOW, HIGH}

WL_CONNECTED == "WL_CONNECTED"
WifiStatuses == {"WL_CONNECTED", "WL_DISCONNECTED", "WL_IDLE_STATUS"}

OPENCLAW_BUTTON_PROMPT == <<"Give me a short status update.">>
OPENCLAW_USE_TLS == FALSE
OPENCLAW_AGENT_ID == "main"
kDeviceIdBuf == 17

(***************************************************************************)
(* Bounds of the model.                                                    *)
(***************************************************************************)
\* single characters the environment may send per line, besides one filler run
MaxSingles == 2
\* length of the filler run of ordinary characters
FillLen == 511
\* clock horizons (ms since reset) of the specifications
SerialHorizon == 560
ButtonHorizon == 660
ChatHorizon == 540
WifiHorizon == 42500
FullHorizon == 540
FullWifiHorizon == 1100
LiveHorizon == 520
LinkHorizon == 520
EmptyHorizon == 530
EmptyWifiHorizon == 1040
LinkWifiHorizon == 1040
\* forced retries of one connectWifiBlocking whose driver calls are logged
\* where the time is not counted
MaxRetryLog == 2
\* entries of the log of a tick of loop() that are kept
MaxTickLog == 4

(***************************************************************************)
(* Characters of the serial stream.                                        *)
(***************************************************************************)
CR == "CR"
LF == "LF"
OrdinaryChars == {"a", "b"}
LineChars == OrdinaryChars \cup {CR}

Filler == [i \in 1..FillLen |-> "a"]

\* Accumulate with the cap tested one character early
Accumulate_CapEarly(line, c) ==
    IF c = CR THEN line
    ELSE IF Len(line) < kMaxInputLine - 1 THEN Append(line, c)
    ELSE line

\* Accumulate with a character beyond the cap overwriting the last one
Accumulate_Overwrite(line, c) ==
    IF c = CR THEN line
    ELSE IF Len(line) < kMaxInputLine THEN Append(line, c)
    ELSE [line EXCEPT ![Len(line)] = c]

\* Accumulate with the cap tested with <= instead of <
Accumulate_CapLate(line, c) ==
    IF c = CR THEN line
    ELSE IF Len(line) <= kMaxInputLine THEN Append(line, c)
    ELSE line

\* one pass of the body of the while loop of handleSerialInput for a
\* character other than the newline
Accumulate(line, c) ==
    IF c = CR THEN line
    ELSE IF Len(line) < kMaxInputLine THEN Append(line, c)
    ELSE line

\* the loop body applied to the characters of cs in order (the sequence is
\* split in halves, and the first half is evaluated before the second is
\* begun, to keep the evaluation shallow)
RECURSIVE AccumulateAll(_, _)
AccumulateAll(line, cs) ==
    IF Len(cs) = 0 THEN line
    ELSE IF Len(cs) = 1 THEN Accumulate(line, cs[1])
    ELSE LET half == Len(cs) \div 2
             first == AccumulateAll(line, SubSeq(cs, 1, half))
         IN IF Len(first) >= 0
            THEN AccumulateAll(first, SubSeq(cs, half + 1, Len(cs)))
            ELSE first

(***************************************************************************)
(* JSON values as ArduinoJson sees them: a tag and a payload.              *)
(***************************************************************************)
JNull == [t |-> "null", v |-> 0]
JStr(s) == [t |-> "str", v |-> s]
JNum(n) == [t |-> "num", v |-> n]
JObj(r) == [t |-> "obj", v |-> r]
JArr(s) == [t |-> "arr", v |-> s]
\* a body deserializeJson rejects, with the DeserializationError it reports
JBad(e) == [t |-> "bad", v |-> e]

\* doc[key]: the member of an object, a null variant otherwise
Member(j, key) ==
    IF j.t = "obj" /\ key \in DOMAIN j.v THEN j.v[key] ELSE JNull

\* doc[i]: the element of an array (0-based), a null variant otherwise
Element(j, i) ==
    IF j.t = "arr" /\ (i + 1) \in DOMAIN j.v THEN j.v[i + 1] ELSE JNull

\* variant | nullptr converted to const char *: the string, or nullptr
IsCString(j) == j.t = "str"

\* String(...) + code: the decimal text of an int
IntText(n) == ToString(n)

(***************************************************************************)
(* Response bodies the gateway may send, as texts, and the document        *)
(* deserializeJson builds for each.                                        *)
(***************************************************************************)
ChoicesWith(content) ==
    JArr(<<JObj([message |-> JObj([content |-> content])])>>)

BodyReply == "{\"choices\":[{\"message\":{\"content\":\"hi\"}}]}"
BodyError == "{\"error\":{\"message\":\"rate limited\"}}"
BodyErrorAndReply ==
    "{\"error\":{\"message\":\"rate limited\"},\"choices\":[{\"message\":{\"content\":\"hi\"}}]}"
BodyNoContent == "{\"choices\":[{}]}"
BodyNoChoices == "{\"id\":\"x\"}"
BodyNullContent == "{\"choices\":[{\"message\":{\"content\":null}}]}"
BodyNumError ==
    "{\"error\":{\"message\":42},\"choices\":[{\"message\":{\"content\":\"hi\"}}]}"
BodyStringError == "{\"error\":\"boom\"}"
BodyNotJson == "not json"
BodyEmpty == ""
BodyPlainString == "\"internal error\""

AllBodies ==
    {BodyReply, BodyError, BodyErrorAndReply, BodyNoContent, BodyNoChoices,
     BodyNullContent, BodyNumError, BodyStringError, BodyNotJson, BodyEmpty,
     BodyPlainString}

deserializeJson(json) ==
    CASE json = BodyReply -> JObj([choices |-> ChoicesWith(JStr("hi"))])
      [] json = BodyError ->
            JObj([error |-> JObj([message |-> JStr("rate limited")])])
      [] json = BodyErrorAndReply ->
            JObj([error |-> JObj([message |-> JStr("rate limited")]),
                  choices |-> ChoicesWith(JStr("hi"))])
      [] json = BodyNoContent -> JObj([choices |-> JArr(<<JObj(<<>>)>>)])
      [] json = BodyNoChoices -> JObj([id |-> JStr("x")])
      [] json = BodyNullContent -> JObj([choices |-> ChoicesWith(JNull)])
      [] json = BodyNumError ->
            JObj([error |-> JObj([message |-> JNum(42)]),
                  choices |-> ChoicesWith(JStr("hi"))])
      [] json = BodyStringError -> JObj([error |-> JStr("boom")])
      [] json = BodyNotJson -> JBad("InvalidInput")
      [] json = BodyEmpty -> JBad("EmptyInput")
      [] json = BodyPlainString -> JStr("internal error")

AllCodes == {-11, -1, 0, 1, 200, 399, 400, 429, 500}

\* extractAssistantText with the reply looked for before the error
extractAssistantText_ReplyFirst(json) ==
    LET doc == deserializeJson(json)
        apiError == Member(Member(doc, "error"), "message")
        text == Member(Member(Element(Member(doc, "choices"), 0),
                              "message"), "content")
    IN IF doc.t = "bad" THEN <<"[json-parse-error] ", doc.v>>
       ELSE IF IsCString(text) THEN <<text.v>>
       ELSE IF IsCString(apiError) THEN <<"[openclaw-error] ", apiError.v>>
       ELSE <<"[openclaw-error] missing choices[0].message.content">>

\* extractAssistantText without the check of error.message
extractAssistantText_NoErrorCheck(json) ==
    LET doc == deserializeJson(json)
        text == Member(Member(Element(Member(doc, "choices"), 0),
                              "message"), "content")
    IN IF doc.t = "bad" THEN <<"[json-parse-error] ", doc.v>>
       ELSE IF ~IsCString(text)
            THEN <<"[openclaw-error] missing choices[0].message.content">>
       ELSE <<text.v>>

\* extractAssistantText: the returned String as the parts concatenated
extractAssistantText(json) ==
    LET doc == deserializeJson(json)
        apiError == Member(Member(doc, "error"), "message")
        text == Member(Member(Element(Member(doc, "choices"), 0),
                              "message"), "content")
    IN IF doc.t = "bad" THEN <<"[json-parse-error] ", doc.v>>
       ELSE IF IsCString(apiError) THEN <<"[openclaw-error] ", apiError.v>>
       ELSE IF ~IsCString(text)
            THEN <<"[openclaw-error] missing choices[0].message.content">>
       ELSE <<text.v>>

\* ClassifyResponse with the HTTP error range starting after 400
ClassifyResponse_FloorExclusive(code, raw) ==
    IF code <= 0 THEN <<"[http-error] POST failed: ", IntText(code)>>
    ELSE IF code > kHttpErrorFloor THEN <<"[http-", IntText(code), "] ", raw>>
    ELSE extractAssistantText(raw)

\* lines 149-156 of askOpenClaw: the String returned for a POST result
ClassifyResponse(code, raw) ==
    IF code <= 0 THEN <<"[http-error] POST failed: ", IntText(code)>>
    ELSE IF code >= kHttpErrorFloor THEN <<"[http-", IntText(code), "] ", raw>>
    ELSE extractAssistantText(raw)

HttpBeginFailure ==
    IF OPENCLAW_USE_TLS
    THEN <<"[http-error] failed to initialize TLS HTTP client">>
    ELSE <<"[http-error] failed to initialize HTTP client">>

(***************************************************************************)
(* The device identifier.  A 64-bit value is four 16-bit words, the most   *)
(* significant first, each an integer in 0..65535.                         *)
(***************************************************************************)
Word == 65536
HexDigits ==
    <<"0", "1", "2", "3", "4", "5", "6", "7", "8", "9", "A", "B", "C", "D",
      "E", "F">>

\* the digits %X prints for n >= 0, the most significant first, without
\* padding
RECURSIVE HexOf(_)
HexOf(n) ==
    IF n < 16 THEN <<HexDigits[n + 1]>>
    ELSE Append(HexOf(n \div 16), HexDigits[(n % 16) + 1])

\* ZeroPad without the padding
ZeroPad_None(digits, width) == digits

\* the flag 0 and the minimum field width of a conversion
RECURSIVE ZeroPad(_, _)
ZeroPad(digits, width) ==
    IF Len(digits) >= width THEN digits
    ELSE ZeroPad(<<"0">> \o digits, width)

\* %04X of static_cast<uint16_t>(mac >> 32): the word above the low 32 bits
Format04X(mac) == ZeroPad(HexOf(mac[2] % Word), 4)

\* %08X of static_cast<uint32_t>(mac): the value hi * 65536 + lo, whose
\* digits are those of hi followed by the four of lo when hi is not 0
Format08X(mac) ==
    LET hi == mac[3]
        lo == mac[4]
        digits == IF hi = 0 THEN HexOf(lo)
                  ELSE HexOf(hi) \o ZeroPad(HexOf(lo), 4)
    IN ZeroPad(digits, 8)

\* snprintf(out, sizeof(out), ...): at most sizeof(out) - 1 characters
Truncated(text, size) ==
    SubSeq(text, 1, IF Len(text) < size - 1 THEN Len(text) ELSE size - 1)

\* lines 35-40
readDeviceId(mac) == Truncated(Format04X(mac) \o Format08X(mac), kDeviceIdBuf)

\* identifiers of the model
Words == {0, 1, 240, 4660, 43981, 65535}
Macs == Words \X Words \X Words \X Words
SampleMac == <<0, 1, 43981, 4660>>

(***************************************************************************)
(* State.                                                                  *)
(***************************************************************************)
VARIABLES
    pc,                 \* where the single thread of control is
    caller,             \* who called runPrompt / connectWifiBlocking
    clock,              \* millis(): milliseconds since reset
    g_inputLine,        \* pending serial line
    g_bootLatched,      \* button latch
    g_lastBootEdgeMs,   \* time of the last recognised button transition
    wifiStatus,         \* what WiFi.status() returned last
    wifiMode,           \* mode set by WiFi.mode
    attempts,           \* poll counter of connectWifiBlocking (uint8_t)
    wifiCalls,          \* WiFi driver calls of the latest connectWifiBlocking
    trimmed,            \* runPrompt: the prompt being processed
    code,               \* askOpenClaw: result of http.POST
    raw,                \* askOpenClaw: result of http.getString
    reply,              \* askOpenClaw: the String returned
    \* history of the run, read by the properties only
    fed,                \* characters read since the last newline
    evSrc,              \* producer of the running PromptEvent
    evLine,             \* the characters the terminated line was made of
    evPosts,            \* prompts POSTed for the running PromptEvent
    path,               \* phases the running askOpenClaw went through
    prevLevel,          \* pin level sampled by the previous button poll
    lastFallAt,         \* time of the last sampled falling transition
    fallGap,            \* time between the last two sampled falling transitions
    fallEvents,         \* button events emitted from the last-but-one fall on
    pairEvents,         \* fallEvents as it stood at the last falling transition
    pressEvents,        \* button events since the last recognised release
    pairPress,          \* pressEvents as it stood at the last falling transition
    lastButtonAt,       \* poll time of the last button PromptEvent
    buttonGap,          \* time between the last two button PromptEvents
    tickLog,            \* PromptEvents and POSTs of the current tick of loop()
    lastOutcome,        \* kind of the reply runPrompt printed last
    \* the identity of the device
    efuseMac,           \* ESP.getEfuseMac(): 64 bits as four 16-bit words
    g_deviceId,         \* characters of the device identifier
    g_sessionKey        \* parts of the session key sent with every request

progVars == <<pc, caller, clock>>
serialVars == <<g_inputLine, fed>>
buttonVars == <<g_bootLatched, g_lastBootEdgeMs, prevLevel, lastFallAt,
                fallGap, fallEvents, pairEvents, pressEvents, pairPress,
                lastButtonAt, buttonGap>>
wifiVars == <<wifiStatus, wifiMode, attempts, wifiCalls>>
callVars == <<trimmed, code, raw, reply, evSrc, evLine, evPosts, path>>
histVars == <<tickLog, lastOutcome>>
idVars == <<efuseMac, g_deviceId, g_sessionKey>>
vars == <<pc, caller, clock, g_inputLine, g_bootLatched, g_lastBootEdgeMs,
          wifiStatus, wifiMode, attempts, wifiCalls, trimmed, code, raw,
          reply, fed, evSrc, evLine, evPosts, path, prevLevel, lastFallAt,
          fallGap, fallEvents, pairEvents, pressEvents, pairPress,
          lastButtonAt, buttonGap, tickLog, lastOutcome, efuseMac,
          g_deviceId, g_sessionKey>>

None == "none"
NoTime == 0 - 1

\* the state at reset of a device whose identifier is mac
Boot(mac) ==
    /\ efuseMac = mac
    /\ g_deviceId = <<>>
    /\ g_sessionKey = <<>>
    /\ pc = "setup"
    /\ caller = None
    /\ clock = 0
    /\ g_inputLine = <<>>
    /\ g_bootLatched = FALSE
    /\ g_lastBootEdgeMs = 0
    /\ wifiStatus = "WL_IDLE_STATUS"
    /\ wifiMode = "WIFI_OFF"
    /\ attempts = 0
    /\ wifiCalls = <<>>
    /\ trimmed = <<>>
    /\ code = 0
    /\ raw = ""
    /\ reply = <<>>
    /\ fed = <<>>
    /\ evSrc = None
    /\ evLine = <<>>
    /\ evPosts = <<>>
    /\ path = <<>>
    /\ prevLevel = HIGH
    /\ lastFallAt = NoTime
    /\ fallGap = NoTime
    /\ fallEvents = 0
    /\ pairEvents = 0
    /\ pressEvents = 0
    /\ pairPress = 0
    /\ lastButtonAt = NoTime
    /\ buttonGap = NoTime
    /\ tickLog = <<>>
    /\ lastOutcome = None

Init == Boot(SampleMac)

(***************************************************************************)
(* setup(): lines 207-224, up to the call of connectWifiBlocking.  The     *)
(* session key is the parts line 215 concatenates.                         *)
(***************************************************************************)
setup ==
    /\ pc = "setup"
    /\ g_deviceId' = readDeviceId(efuseMac)
    /\ g_sessionKey' = <<"agent:", OPENCLAW_AGENT_ID, ":openai:esp32-">>
                           \o readDeviceId(efuseMac)
    /\ UNCHANGED efuseMac
    /\ clock' = clock + kSetupDelayMs
    /\ caller' = "setup"
    /\ pc' = "ConnectivityCheck"
    /\ UNCHANGED <<serialVars, buttonVars, wifiVars, callVars, histVars>>

(***************************************************************************)
(* connectWifiBlocking.                                                    *)
(***************************************************************************)
\* AfterWifi with askOpenClaw going on without http.begin
AfterWifi_SkipsBegin(who) == IF who = "setup" THEN "serial" ELSE "Sending"

\* where connectWifiBlocking returns to
AfterWifi(who) == IF who = "setup" THEN "serial" ELSE "Connecting"

\* connectWifiBlocking returning at once whatever the status
connectWifiBlocking_ReturnsWhenDown(st) ==
    /\ pc = "ConnectivityCheck"
    /\ UNCHANGED idVars
    /\ UNCHANGED histVars
    /\ wifiStatus' = st
    /\ pc' = AfterWifi(caller)
    /\ wifiCalls' = <<>>
    /\ UNCHANGED <<wifiMode, attempts>>
    /\ path' = IF caller = "setup" THEN path
               ELSE Append(path, "ConnectivityCheck")
    /\ UNCHANGED <<caller, clock, serialVars, buttonVars, trimmed, code, raw,
                   reply, evSrc, evLine, evPosts>>

\* connectWifiBlocking without the early return of line 57
connectWifiBlocking_AlwaysBegins(st) ==
    /\ pc = "ConnectivityCheck"
    /\ UNCHANGED idVars
    /\ UNCHANGED histVars
    /\ wifiStatus' = st
    /\ wifiMode' = "WIFI_STA"
    /\ wifiCalls' = <<"mode", "begin">>
    /\ attempts' = 0
    /\ pc' = "WifiPoll"
    /\ path' = IF caller = "setup" THEN path
               ELSE Append(path, "ConnectivityCheck")
    /\ UNCHANGED <<caller, clock, serialVars, buttonVars, trimmed, code, raw,
                   reply, evSrc, evLine, evPosts>>

\* lines 57-65: the check on entry; st is what WiFi.status() returns
connectWifiBlocking(st) ==
    /\ pc = "ConnectivityCheck"
    /\ UNCHANGED idVars
    /\ UNCHANGED histVars
    /\ wifiStatus' = st
    /\ IF st = WL_CONNECTED
       THEN /\ pc' = AfterWifi(caller)
            /\ wifiCalls' = <<>>
            /\ UNCHANGED <<wifiMode, attempts>>
       ELSE /\ wifiMode' = "WIFI_STA"
            /\ wifiCalls' = <<"mode", "begin">>
            /\ attempts' = 0
            /\ pc' = "WifiPoll"
    /\ path' = IF caller = "setup" THEN path
               ELSE Append(path, "ConnectivityCheck")
    /\ UNCHANGED <<caller, clock, serialVars, buttonVars, trimmed, code, raw,
                   reply, evSrc, evLine, evPosts>>

\* line 69: attempts++ on a uint8_t
Polled(a) == (a + 1) % Uint8

\* RetryForced one poll early
RetryForced_Early(a) == Polled(a) >= kWifiMaxAttempts - 1

\* line 70: the test made after the increment
RetryForced(a) == Polled(a) >= kWifiMaxAttempts

\* lines 66-79: one test of the while condition and, if the link is still
\* down, one pass of the loop body; h bounds the clock
WifiPoll(st, h) ==
    /\ pc = "WifiPoll"
    /\ UNCHANGED idVars
    /\ UNCHANGED histVars
    /\ wifiStatus' = st
    /\ IF st = WL_CONNECTED
       THEN /\ pc' = AfterWifi(caller)
            /\ attempts' = 0
            /\ UNCHANGED <<clock, wifiCalls>>
       ELSE LET n == Polled(attempts)
            IN /\ pc' = "WifiPoll"
               /\ IF RetryForced(attempts)
                  THEN /\ attempts' = 0
                       /\ wifiCalls' = wifiCalls \o <<"disconnect", "begin">>
                       /\ clock' = clock + kWifiPollMs + kWifiPollMs
                  ELSE /\ attempts' = n
                       /\ UNCHANGED wifiCalls
                       /\ clock' = clock + kWifiPollMs
               /\ clock' <= h
    /\ UNCHANGED <<caller, wifiMode, serialVars, buttonVars, callVars>>

\* the driver calls logged after one more forced retry: those of the first
\* MaxRetryLog retries of a call are kept
LogRetry(calls) ==
    IF Len(calls) < 2 + 2 * MaxRetryLog
    THEN calls \o <<"disconnect", "begin">>
    ELSE calls

\* WifiPollCycle leaving the loop, the link still down, when the retry is due
WifiPollCycle_GivesUp(st) ==
    /\ pc = "WifiPoll"
    /\ UNCHANGED idVars
    /\ UNCHANGED histVars
    /\ wifiStatus' = st
    /\ IF st = WL_CONNECTED \/ RetryForced(attempts)
       THEN /\ pc' = AfterWifi(caller)
            /\ attempts' = 0
            /\ UNCHANGED wifiCalls
       ELSE /\ pc' = "WifiPoll"
            /\ attempts' = Polled(attempts)
            /\ UNCHANGED wifiCalls
    /\ UNCHANGED <<caller, clock, wifiMode, serialVars, buttonVars, callVars>>

\* lines 66-79 as WifiPoll, with the time spent in delay() not counted: the
\* loop is then a cycle over (attempts, status), which it can go round
\* without end
WifiPollCycle(st) ==
    /\ pc = "WifiPoll"
    /\ UNCHANGED idVars
    /\ UNCHANGED histVars
    /\ wifiStatus' = st
    /\ IF st = WL_CONNECTED
       THEN /\ pc' = AfterWifi(caller)
            /\ attempts' = 0
            /\ UNCHANGED wifiCalls
       ELSE /\ pc' = "WifiPoll"
            /\ IF RetryForced(attempts)
               THEN /\ attempts' = 0
                    /\ wifiCalls' = LogRetry(wifiCalls)
               ELSE /\ attempts' = Polled(attempts)
                    /\ UNCHANGED wifiCalls
    /\ UNCHANGED <<caller, clock, wifiMode, serialVars, buttonVars, callVars>>

(***************************************************************************)
(* runPrompt and askOpenClaw.                                              *)
(***************************************************************************)
\* the Wi-Fi link drops while askOpenClaw is past connectWifiBlocking
\* (lines 109-156); nothing in those lines reads WiFi.status()
LinkLost ==
    /\ pc \in {"Connecting", "Sending", "AwaitingResponse", "Classifying"}
    /\ UNCHANGED idVars
    /\ wifiStatus = WL_CONNECTED
    /\ wifiStatus' = "WL_DISCONNECTED"
    /\ UNCHANGED <<progVars, serialVars, buttonVars, wifiMode, attempts,
                   wifiCalls, callVars, histVars>>

\* the log of the tick after one more entry: the first MaxTickLog are kept
Logged(log, e) == IF Len(log) < MaxTickLog THEN Append(log, e) ELSE log

\* runPrompt without the return of lines 161-163
runPrompt_NoEmptyCheck(who, line, prompt) ==
    /\ tickLog' = Logged(tickLog, who)
    /\ lastOutcome' = lastOutcome
    /\ caller' = who
    /\ evSrc' = who
    /\ evLine' = line
    /\ evPosts' = <<>>
    /\ path' = <<>>
    /\ trimmed' = prompt
    /\ code' = 0
    /\ raw' = ""
    /\ reply' = <<>>
    /\ pc' = "ConnectivityCheck"

\* lines 159-168: runPrompt up to the call of askOpenClaw, as the effect on
\* the call's variables; who is the producer, line what it was made of
runPrompt(who, line, prompt) ==
    /\ tickLog' = IF Len(prompt) = 0 THEN tickLog ELSE Logged(tickLog, who)
    /\ lastOutcome' = lastOutcome
    /\ caller' = who
    /\ evSrc' = who
    /\ evLine' = line
    /\ evPosts' = <<>>
    /\ path' = <<>>
    /\ trimmed' = prompt
    /\ code' = 0
    /\ raw' = ""
    /\ reply' = <<>>
    /\ pc' = IF Len(prompt) = 0 THEN "Return" ELSE "ConnectivityCheck"

\* lines 109-135: the request is built and the HTTP client initialised;
\* ok is what http.begin returns
HttpBegin(ok) ==
    /\ pc = "Connecting"
    /\ UNCHANGED idVars
    /\ UNCHANGED histVars
    /\ path' = Append(path, "Connecting")
    /\ IF ok
       THEN /\ pc' = "Sending"
            /\ UNCHANGED reply
       ELSE /\ pc' = "Return"
            /\ reply' = HttpBeginFailure
    /\ UNCHANGED <<caller, clock, serialVars, buttonVars, wifiVars, trimmed,
                   code, raw, evSrc, evLine, evPosts>>

\* lines 137-145: headers set and the POST issued with the prompt as the
\* content of the one message
HttpPost ==
    /\ pc = "Sending"
    /\ UNCHANGED idVars
    /\ path' = Append(path, "Sending")
    /\ evPosts' = Append(evPosts, trimmed)
    /\ tickLog' = Logged(tickLog, "post")
    /\ UNCHANGED lastOutcome
    /\ pc' = "AwaitingResponse"
    /\ UNCHANGED <<caller, clock, serialVars, buttonVars, wifiVars, trimmed,
                   code, raw, reply, evSrc, evLine>>

\* HttpResponse with the button polled while the response is awaited, a
\* release being recognised
HttpResponse_PollsButton(c, r, d, h) ==
    /\ pc = "AwaitingResponse"
    /\ UNCHANGED idVars
    /\ UNCHANGED histVars
    /\ clock + d <= h
    /\ clock' = clock + d
    /\ path' = Append(path, "AwaitingResponse")
    /\ code' = c
    /\ raw' = r
    /\ pc' = "Classifying"
    /\ g_bootLatched' = FALSE
    /\ UNCHANGED <<caller, serialVars, g_lastBootEdgeMs, prevLevel, lastFallAt,
                   fallGap, fallEvents, pairEvents, pressEvents, pairPress,
                   lastButtonAt, buttonGap, wifiVars, trimmed, reply, evSrc,
                   evLine, evPosts>>

\* lines 145-147: POST returns c and getString returns r after d ms
HttpResponse(c, r, d, h) ==
    /\ pc = "AwaitingResponse"
    /\ UNCHANGED idVars
    /\ UNCHANGED histVars
    /\ clock + d <= h
    /\ clock' = clock + d
    /\ path' = Append(path, "AwaitingResponse")
    /\ code' = c
    /\ raw' = r
    /\ pc' = "Classifying"
    /\ UNCHANGED <<caller, serialVars, buttonVars, wifiVars, trimmed, reply,
                   evSrc, evLine, evPosts>>

\* Classify with a failed POST sent again
Classify_RetriesFailedPost ==
    /\ pc = "Classifying"
    /\ UNCHANGED idVars
    /\ UNCHANGED histVars
    /\ path' = Append(path, "Classifying")
    /\ reply' = ClassifyResponse(code, raw)
    /\ pc' = IF code <= 0 THEN "Sending" ELSE "Return"
    /\ UNCHANGED <<caller, clock, serialVars, buttonVars, wifiVars, trimmed,
                   code, raw, evSrc, evLine, evPosts>>

\* lines 149-156
Classify ==
    /\ pc = "Classifying"
    /\ UNCHANGED idVars
    /\ UNCHANGED histVars
    /\ path' = Append(path, "Classifying")
    /\ reply' = ClassifyResponse(code, raw)
    /\ pc' = "Return"
    /\ UNCHANGED <<caller, clock, serialVars, buttonVars, wifiVars, trimmed,
                   code, raw, evSrc, evLine, evPosts>>

\* line 169: the kind of reply printed, by the tag the text starts with
OutcomeOf(text) ==
    CASE text = HttpBeginFailure -> "InitFailure"
      [] text = <<"[openclaw-error] missing choices[0].message.content">> ->
            "SchemaError"
      [] text # HttpBeginFailure /\ text[1] = "[http-error] POST failed: " ->
            "TransportError"
      [] text[1] = "[http-" -> "HttpError"
      [] text[1] = "[json-parse-error] " -> "ParseError"
      [] text[1] = "[openclaw-error] " -> "GatewayError"
      [] OTHER -> "Reply"

\* Return with the sketch halted after a reply that reports an error
Return_HaltsOnError ==
    /\ pc = "Return"
    /\ UNCHANGED idVars
    /\ UNCHANGED tickLog
    /\ lastOutcome' = IF path = <<>> THEN lastOutcome ELSE OutcomeOf(reply)
    /\ pc' = IF path # <<>> /\ OutcomeOf(reply) # "Reply" THEN "halted"
             ELSE IF caller = "serial" THEN "serial" ELSE "delay"
    /\ caller' = None
    /\ evSrc' = None
    /\ evLine' = <<>>
    /\ evPosts' = <<>>
    /\ path' = <<>>
    /\ trimmed' = <<>>
    /\ code' = 0
    /\ raw' = ""
    /\ reply' = <<>>
    /\ UNCHANGED <<clock, serialVars, buttonVars, wifiVars>>

\* Return with the serial line polled again after a button PromptEvent
Return_ButtonToSerial ==
    /\ pc = "Return"
    /\ UNCHANGED idVars
    /\ UNCHANGED tickLog
    /\ lastOutcome' = IF path = <<>> THEN lastOutcome ELSE OutcomeOf(reply)
    /\ pc' = "serial"
    /\ caller' = None
    /\ evSrc' = None
    /\ evLine' = <<>>
    /\ evPosts' = <<>>
    /\ path' = <<>>
    /\ trimmed' = <<>>
    /\ code' = 0
    /\ raw' = ""
    /\ reply' = <<>>
    /\ UNCHANGED <<clock, serialVars, buttonVars, wifiVars>>

\* lines 169-171 (or 162): runPrompt returns to the producer that called it
Return ==
    /\ pc = "Return"
    /\ UNCHANGED idVars
    /\ UNCHANGED tickLog
    /\ lastOutcome' = IF path = <<>> THEN lastOutcome ELSE OutcomeOf(reply)
    /\ pc' = IF caller = "serial" THEN "serial" ELSE "delay"
    /\ caller' = None
    /\ evSrc' = None
    /\ evLine' = <<>>
    /\ evPosts' = <<>>
    /\ path' = <<>>
    /\ trimmed' = <<>>
    /\ code' = 0
    /\ raw' = ""
    /\ reply' = <<>>
    /\ UNCHANGED <<clock, serialVars, buttonVars, wifiVars>>

(***************************************************************************)
(* handleSerialInput.                                                      *)
(***************************************************************************)
\* lines 174-178, 185-187: the characters cs, none a newline, are read
SerialRead(cs) ==
    /\ pc = "serial"
    /\ UNCHANGED idVars
    /\ UNCHANGED histVars
    /\ g_inputLine' = AccumulateAll(g_inputLine, cs)
    /\ fed' = fed \o cs
    /\ UNCHANGED <<progVars, buttonVars, wifiVars, callVars>>

\* lines 179-184: a newline is read
SerialNewline ==
    /\ pc = "serial"
    /\ UNCHANGED idVars
    /\ g_inputLine' = <<>>
    /\ fed' = <<>>
    /\ runPrompt("serial", fed, g_inputLine)
    /\ UNCHANGED <<clock, buttonVars, wifiVars>>

\* line 174: Serial.available() is 0 and handleSerialInput returns
SerialIdle ==
    /\ pc = "serial"
    /\ UNCHANGED idVars
    /\ UNCHANGED histVars
    /\ pc' = "button"
    /\ UNCHANGED <<caller, clock, serialVars, buttonVars, wifiVars, callVars>>

(***************************************************************************)
(* handleBootButton and the rest of loop().                                *)
(***************************************************************************)
\* the elapsed time with the subtraction of the last edge forgotten
ElapsedSinceEdge_NoSubtract(now, last) == now

\* now - g_lastBootEdgeMs in uint32_t; the clock of the model stays below
\* the wrap of millis()
ElapsedSinceEdge(now, last) == now - last

\* PressRecognised with the latch not looked at: a held button repeats
PressRecognised_Repeats(level, latched, elapsed) ==
    level = LOW /\ elapsed > kDebounceMs

\* PressRecognised with the guard passed at exactly 60 ms
PressRecognised_AtSixty(level, latched, elapsed) ==
    level = LOW /\ ~latched /\ elapsed >= kDebounceMs

\* line 195
PressRecognised(level, latched, elapsed) ==
    level = LOW /\ ~latched /\ elapsed > kDebounceMs

\* line 199
ReleaseRecognised(level, latched, elapsed) ==
    level = HIGH /\ latched /\ elapsed > kDebounceMs

\* lines 191-203; level is what digitalRead returns, prompt the configured
\* button prompt
handleBootButton(level, prompt) ==
    /\ pc = "button"
    /\ UNCHANGED idVars
    /\ LET now == clock
           elapsed == ElapsedSinceEdge(now, g_lastBootEdgeMs)
           press == PressRecognised(level, g_bootLatched, elapsed)
           release == ~press /\ ReleaseRecognised(level, g_bootLatched, elapsed)
           fall == prevLevel = HIGH /\ level = LOW
           sinceFall == IF press THEN fallEvents + 1 ELSE fallEvents
           sinceRelease == IF press THEN pressEvents + 1
                           ELSE IF release THEN 0 ELSE pressEvents
       IN /\ g_bootLatched' = IF press THEN TRUE
                              ELSE IF release THEN FALSE ELSE g_bootLatched
          /\ g_lastBootEdgeMs' = IF press \/ release THEN now
                                 ELSE g_lastBootEdgeMs
          /\ prevLevel' = level
          /\ lastFallAt' = IF fall THEN now ELSE lastFallAt
          /\ fallGap' = IF fall /\ lastFallAt # NoTime THEN now - lastFallAt
                        ELSE IF fall THEN NoTime ELSE fallGap
          /\ pairEvents' = IF fall THEN sinceFall ELSE pairEvents
          /\ fallEvents' = IF fall THEN (IF press THEN 1 ELSE 0) ELSE sinceFall
          /\ pressEvents' = sinceRelease
          /\ pairPress' = IF fall THEN sinceRelease ELSE pairPress
          /\ lastButtonAt' = IF press THEN now ELSE lastButtonAt
          /\ buttonGap' = IF press /\ lastButtonAt # NoTime
                          THEN now - lastButtonAt ELSE buttonGap
          /\ IF press
             THEN runPrompt("button", <<>>, prompt)
             ELSE /\ pc' = "delay"
                  /\ UNCHANGED <<caller, callVars, histVars>>
    /\ UNCHANGED <<clock, serialVars, wifiVars>>

\* line 234: delay(10) and the next tick of loop()
LoopDelay(h) ==
    /\ pc = "delay"
    /\ UNCHANGED idVars
    /\ clock + kLoopDelayMs <= h
    /\ clock' = clock + kLoopDelayMs
    /\ tickLog' = <<>>
    /\ UNCHANGED lastOutcome
    /\ pc' = "serial"
    /\ UNCHANGED <<caller, serialVars, buttonVars, wifiVars, callVars>>

(***************************************************************************)
(* What the environment sends on the serial line: within one line, up to   *)
(* MaxSingles single characters and at most one filler run.                *)
(***************************************************************************)
Singles(line) == IF Len(line) >= FillLen THEN Len(line) - FillLen ELSE Len(line)

Runs(line, chars) ==
    (IF Singles(line) < MaxSingles THEN {<<c>> : c \in chars} ELSE {})
    \cup (IF Len(line) < FillLen THEN {Filler} ELSE {})

\* responses and latencies (ms) of the gateway
SomeResponses == {<<200, BodyReply>>, <<-1, BodyEmpty>>}
AllResponses == AllCodes \X AllBodies
Latencies == {20, 70}

(***************************************************************************)
(* The whole program: both producers, a link that comes and goes, a        *)
(* gateway that answers or fails.                                          *)
(***************************************************************************)
Next ==
    \/ setup
    \/ \E st \in WifiStatuses : connectWifiBlocking(st)
    \/ \E st \in WifiStatuses : WifiPoll(st, FullWifiHorizon)
    \/ \E ok \in BOOLEAN : HttpBegin(ok)
    \/ HttpPost
    \/ \E rsp \in SomeResponses : HttpResponse(rsp[1], rsp[2], 20, FullHorizon)
    \/ Classify
    \/ Return
    \/ \E cs \in Runs(fed, {"a", CR}) : SerialRead(cs)
    \/ SerialNewline
    \/ SerialIdle
    \/ \E level \in Levels : handleBootButton(level, OPENCLAW_BUTTON_PROMPT)
    \/ LoopDelay(FullHorizon)

Spec == Init /\ [][Next]_vars

(***************************************************************************)
(* The serial producer: the link is up and nobody touches the button.      *)
(***************************************************************************)
NextSerial ==
    \/ setup
    \/ connectWifiBlocking(WL_CONNECTED)
    \/ \E ok \in BOOLEAN : HttpBegin(ok)
    \/ HttpPost
    \/ \E rsp \in SomeResponses : HttpResponse(rsp[1], rsp[2], 20, SerialHorizon)
    \/ Classify
    \/ Return
    \/ \E cs \in Runs(fed, LineChars) : SerialRead(cs)
    \/ SerialNewline
    \/ SerialIdle
    \/ handleBootButton(HIGH, OPENCLAW_BUTTON_PROMPT)
    \/ LoopDelay(SerialHorizon)

SpecSerial == Init /\ [][NextSerial]_vars

(***************************************************************************)
(* The button producer: the link is up and the serial line is silent.      *)
(***************************************************************************)
NextButton ==
    \/ setup
    \/ connectWifiBlocking(WL_CONNECTED)
    \/ HttpBegin(TRUE)
    \/ HttpPost
    \/ \E d \in Latencies : HttpResponse(200, BodyReply, d, ButtonHorizon)
    \/ Classify
    \/ Return
    \/ SerialIdle
    \/ \E level \in Levels : handleBootButton(level, OPENCLAW_BUTTON_PROMPT)
    \/ LoopDelay(ButtonHorizon)

SpecButton == Init /\ [][NextButton]_vars

(***************************************************************************)
(* The chat exchange: every response of the gateway, for the prompts of    *)
(* both producers; the link is up.                                         *)
(***************************************************************************)
NextChat ==
    \/ setup
    \/ connectWifiBlocking(WL_CONNECTED)
    \/ \E ok \in BOOLEAN : HttpBegin(ok)
    \/ HttpPost
    \/ \E rsp \in AllResponses : HttpResponse(rsp[1], rsp[2], 20, ChatHorizon)
    \/ Classify
    \/ Return
    \/ (Len(fed) < 1 /\ SerialRead(<<"a">>))
    \/ SerialNewline
    \/ SerialIdle
    \/ \E level \in Levels : handleBootButton(level, OPENCLAW_BUTTON_PROMPT)
    \/ LoopDelay(ChatHorizon)

SpecChat == Init /\ [][NextChat]_vars

(***************************************************************************)
(* The connectivity manager: the link comes and goes; a button press       *)
(* starts an exchange, which calls connectWifiBlocking again.              *)
(***************************************************************************)
NextWifi ==
    \/ setup
    \/ \E st \in WifiStatuses : connectWifiBlocking(st)
    \/ \E st \in WifiStatuses : WifiPoll(st, WifiHorizon)
    \/ HttpBegin(TRUE)
    \/ HttpPost
    \/ HttpResponse(200, BodyReply, 20, WifiHorizon)
    \/ Classify
    \/ Return
    \/ SerialIdle
    \/ \E level \in Levels : handleBootButton(level, OPENCLAW_BUTTON_PROMPT)

SpecWifi == Init /\ [][NextWifi]_vars

(***************************************************************************)
(* Empty prompts: a sketch built with an empty OPENCLAW_BUTTON_PROMPT,     *)
(* serial lines that are empty, made of carriage returns, or not.          *)
(***************************************************************************)
NextEmpty ==
    \/ setup
    \/ \E st \in WifiStatuses : connectWifiBlocking(st)
    \/ \E st \in WifiStatuses : WifiPoll(st, EmptyWifiHorizon)
    \/ \E ok \in BOOLEAN : HttpBegin(ok)
    \/ HttpPost
    \/ \E rsp \in SomeResponses :
          HttpResponse(rsp[1], rsp[2], 20, EmptyHorizon)
    \/ Classify
    \/ Return
    \/ \E c \in {"a", CR} : (Len(fed) < MaxSingles /\ SerialRead(<<c>>))
    \/ SerialNewline
    \/ SerialIdle
    \/ \E level \in Levels : handleBootButton(level, <<>>)
    \/ LoopDelay(EmptyHorizon)

SpecEmpty == Init /\ [][NextEmpty]_vars

(***************************************************************************)
(* The device identity, for every identifier of Macs.                      *)
(***************************************************************************)
NextIdentity ==
    \/ setup
    \/ connectWifiBlocking(WL_CONNECTED)
    \/ SerialIdle
    \/ handleBootButton(HIGH, OPENCLAW_BUTTON_PROMPT)
    \/ LoopDelay(LiveHorizon)

SpecIdentity == (\E mac \in Macs : Boot(mac)) /\ [][NextIdentity]_vars

(***************************************************************************)
(* The connectivity manager over an unbounded time: the loop may go round  *)
(* for ever.  The program always takes its next step, and a call that      *)
(* keeps polling is eventually told that the link is connected.            *)
(***************************************************************************)
NextWifiLive ==
    \/ setup
    \/ \E st \in WifiStatuses : connectWifiBlocking(st)
    \/ \E st \in WifiStatuses : WifiPollCycle(st)
    \/ HttpBegin(TRUE)
    \/ HttpPost
    \/ HttpResponse(200, BodyReply, 0, LiveHorizon)
    \/ Classify
    \/ Return
    \/ (Len(fed) < 1 /\ SerialRead(<<"a">>))
    \/ SerialNewline
    \/ SerialIdle
    \/ \E level \in Levels : handleBootButton(level, OPENCLAW_BUTTON_PROMPT)
    \/ LoopDelay(LiveHorizon)

SpecWifiLive ==
    /\ Init
    /\ [][NextWifiLive]_vars
    /\ WF_vars(NextWifiLive)
    /\ WF_vars(WifiPollCycle(WL_CONNECTED))

(***************************************************************************)
(* The chat exchange over a link that comes and goes, also while           *)
(* askOpenClaw is past its connectivity check.  The gateway answers        *)
(* whenever it is reached; with the link down the POST cannot be made and  *)
(* HTTPClient reports a negative code.                                     *)
(***************************************************************************)
LinkUpResponses == {<<200, BodyReply>>, <<500, BodyPlainString>>}
LinkDownResponses == {<<-1, BodyEmpty>>}

NextLink ==
    \/ setup
    \/ \E st \in WifiStatuses : connectWifiBlocking(st)
    \/ \E st \in WifiStatuses : WifiPoll(st, LinkWifiHorizon)
    \/ LinkLost
    \/ \E ok \in BOOLEAN : HttpBegin(ok)
    \/ HttpPost
    \/ \E rsp \in (IF wifiStatus = WL_CONNECTED THEN LinkUpResponses
                    ELSE LinkDownResponses) :
          HttpResponse(rsp[1], rsp[2], 20, LinkWifiHorizon)
    \/ Classify
    \/ Return
    \/ (Len(fed) < 1 /\ SerialRead(<<"a">>))
    \/ SerialNewline
    \/ SerialIdle
    \/ handleBootButton(HIGH, OPENCLAW_BUTTON_PROMPT)
    \/ LoopDelay(LinkHorizon)

SpecLink == Init /\ [][NextLink]_vars

(***************************************************************************)
(* Properties of the serial producer.                                      *)
(***************************************************************************)
StripCR(s) == SelectSeq(s, LAMBDA c : c # CR)

Prefix(s, n) == SubSeq(s, 1, IF Len(s) < n THEN Len(s) ELSE n)

\* runPrompt was called for a serial line and has not returned yet
SerialEvent == evSrc = "serial"

\* the running runPrompt has called askOpenClaw
ExchangeStarted == pc # "Return" \/ path # <<>>

\* the running askOpenClaw has passed http.POST
PostIssued ==
    \/ pc \in {"AwaitingResponse", "Classifying"}
    \/ pc = "Return" /\ \E i \in DOMAIN path : path[i] = "Sending"

\* C1 as stated: a line P of at most 512 characters and its newline give one
\* gateway exchange whose prompt is P, and g_inputLine is empty afterwards.
C1_AsStated ==
    (SerialEvent /\ Len(evLine) <= kMaxInputLine) =>
        /\ trimmed = evLine
        /\ ExchangeStarted
        /\ g_inputLine = <<>>
        /\ PostIssued => evPosts = <<evLine>>

\* C1, amended: a line P of at most 512 characters and its newline give one
\* call of runPrompt whose prompt is P without its carriage returns, with
\* g_inputLine empty from the newline on; that call makes one gateway
\* exchange (one POST at most, carrying that prompt) when the prompt is not
\* empty and none when it is.
C1_SerialLineBecomesOnePrompt ==
    (SerialEvent /\ Len(evLine) <= kMaxInputLine) =>
        /\ trimmed = StripCR(evLine)
        /\ g_inputLine = <<>>
        /\ ExchangeStarted <=> trimmed # <<>>
        /\ PostIssued => evPosts = <<StripCR(evLine)>>
        /\ ~PostIssued => evPosts = <<>>

C1_Witness ==
    /\ SerialEvent
    /\ pc = "Return"
    /\ Len(evLine) = kMaxInputLine
    /\ evLine[1] = "b"
    /\ evPosts = <<evLine>>
    /\ g_inputLine = <<>>

\* C2: whatever is read before the newline, the PromptEvent carries the first
\* 512 buffered characters (those that are no carriage returns) of its own
\* line and nothing else: what is read while the buffer is full is in no
\* PromptEvent.
C2_OverlongLineIsTruncated ==
    SerialEvent =>
        /\ trimmed = Prefix(StripCR(evLine), kMaxInputLine)
        /\ \A i \in DOMAIN evPosts :
              evPosts[i] = Prefix(StripCR(evLine), kMaxInputLine)

C2_Witness ==
    /\ SerialEvent
    /\ pc = "Return"
    /\ Len(StripCR(evLine)) > kMaxInputLine
    /\ evLine[Len(evLine)] = "b"
    /\ trimmed[Len(trimmed)] = "a"
    /\ evPosts = <<trimmed>>

\* C3: the pending serial buffer never holds more than 512 characters.
C3_InputLineBounded == Len(g_inputLine) <= kMaxInputLine

C3_Witness ==
    /\ Len(g_inputLine) = kMaxInputLine
    /\ Len(StripCR(fed)) > kMaxInputLine

(***************************************************************************)
(* Properties of the button producer.                                      *)
(***************************************************************************)
\* C4 as stated: two sampled falling transitions less than 60 ms apart give
\* exactly one button PromptEvent (counting every one since the last
\* recognised release), and two button PromptEvents are more than 60 ms
\* apart.
C4_AsStated ==
    /\ (fallGap # NoTime /\ fallGap < kDebounceMs) => pairPress = 1
    /\ buttonGap # NoTime => buttonGap > kDebounceMs

\* C4, amended: two sampled falling transitions less than 60 ms apart give
\* at most one button PromptEvent (none when neither is recognised), and two
\* button PromptEvents are more than 60 ms apart.
C4_DebounceAtMostOneEvent ==
    /\ (fallGap # NoTime /\ fallGap < kDebounceMs) =>
          (pairEvents <= 1 /\ pairPress <= 1)
    /\ buttonGap # NoTime => buttonGap > kDebounceMs

C4_Witness ==
    /\ fallGap # NoTime
    /\ fallGap < kDebounceMs
    /\ pairEvents = 1
    /\ pairPress = 1
    /\ g_bootLatched

(***************************************************************************)
(* Properties of the chat exchange.                                        *)
(***************************************************************************)
\* the running askOpenClaw has classified the response it received
Classified == pc = "Return" /\ path # <<>> /\ path[Len(path)] = "Classifying"

SuccessRange(c) == c > 0 /\ c < kHttpErrorFloor

\* the six outcomes, by the text askOpenClaw returns
TransportError(c) == <<"[http-error] POST failed: ", IntText(c)>>
HttpError(c, r) == <<"[http-", IntText(c), "] ", r>>
ParseError(diagnostic) == <<"[json-parse-error] ", diagnostic>>
GatewayError(m) == <<"[openclaw-error] ", m>>
SchemaError == <<"[openclaw-error] missing choices[0].message.content">>
Reply(content) == <<content>>

\* the response bodies of the model, described field by field
NotJson == {BodyNotJson, BodyEmpty}
WithErrorMessage == {BodyError, BodyErrorAndReply, BodyNumError}
WithStringErrorMessage == {BodyError, BodyErrorAndReply}
WithContent == {BodyReply, BodyErrorAndReply, BodyNullContent, BodyNumError}
WithStringContent == {BodyReply, BodyErrorAndReply, BodyNumError}
ParserDiagnostics == {"InvalidInput", "EmptyInput"}

\* C5 as stated: in the success range, a body that is no JSON gives
\* ParseError, else one with an error.message field gives GatewayError, else
\* one without choices[0].message.content gives SchemaError, else Reply.
C5_AsStated ==
    (Classified /\ SuccessRange(code)) =>
        IF raw \in NotJson THEN \E e \in ParserDiagnostics : reply = ParseError(e)
        ELSE IF raw \in WithErrorMessage THEN reply = GatewayError("rate limited")
        ELSE IF raw \notin WithContent THEN reply = SchemaError
        ELSE reply = Reply("hi")

\* C5, amended: in the success range, a body deserializeJson rejects gives
\* ParseError, else one whose error.message is a string gives GatewayError
\* even if it also has a reply, else one whose choices[0].message.content is
\* not a string (absent or of another type) gives SchemaError, else Reply.
C5_ClassificationPrecedence ==
    (Classified /\ SuccessRange(code)) =>
        IF raw \in NotJson THEN \E e \in ParserDiagnostics : reply = ParseError(e)
        ELSE IF raw \in WithStringErrorMessage
             THEN reply = GatewayError("rate limited")
        ELSE IF raw \notin WithStringContent THEN reply = SchemaError
        ELSE reply = Reply("hi")

C5_Witness ==
    /\ Classified
    /\ code = 200
    /\ raw = BodyErrorAndReply
    /\ reply = GatewayError("rate limited")

\* C6: a status <= 0 gives TransportError(code) whatever the body, a status
\* >= 400 gives HttpError(code, raw body), and any other status gives one of
\* the four results of the JSON classification of the body.
C6_StatusBeforeBody ==
    Classified =>
        /\ code <= 0 => reply = TransportError(code)
        /\ code >= kHttpErrorFloor => reply = HttpError(code, raw)
        /\ SuccessRange(code) =>
              \/ \E e \in ParserDiagnostics : reply = ParseError(e)
              \/ reply = GatewayError("rate limited")
              \/ reply = SchemaError
              \/ reply = Reply("hi")

C6_Witness ==
    /\ Classified
    /\ code = kHttpErrorFloor
    /\ raw = BodyReply
    /\ reply = HttpError(kHttpErrorFloor, BodyReply)

\* C7 as stated: a body of the application-error shape is classified as
\* GatewayError whatever the HTTP status the gateway returned.
C7_AsStated ==
    (Classified /\ code > 0 /\ raw = BodyError) =>
        reply = GatewayError("rate limited")

\* C7, amended: a body of the application-error shape is classified as
\* GatewayError when the HTTP status is in 1..399; with a status >= 400 the
\* body is not looked at and the result is HttpError(code, raw body).
C7_ErrorShapeInSuccessRangeOnly ==
    (Classified /\ code > 0 /\ raw = BodyError) =>
        /\ SuccessRange(code) => reply = GatewayError("rate limited")
        /\ code >= kHttpErrorFloor => reply = HttpError(code, raw)

C7_Witness ==
    /\ Classified
    /\ code = 429
    /\ raw = BodyError
    /\ reply = HttpError(429, BodyError)

FullPath ==
    <<"ConnectivityCheck", "Connecting", "Sending", "AwaitingResponse",
      "Classifying">>

SixOutcomes ==
    {TransportError(c) : c \in AllCodes}
    \cup {HttpError(c, r) : c \in AllCodes, r \in AllBodies}
    \cup {ParseError(e) : e \in ParserDiagnostics}
    \cup {GatewayError("rate limited"), SchemaError, Reply("hi")}

\* askOpenClaw has returned to runPrompt
Returned == pc = "Return" /\ path # <<>>

\* C8 as stated: a call of askOpenClaw goes through the five phases in
\* order and returns one of the six outcomes, after the POST.
C8_AsStated ==
    /\ path = Prefix(FullPath, Len(path))
    /\ Returned => (path = FullPath /\ reply \in SixOutcomes /\ Len(evPosts) = 1)

\* C8, amended: a call of askOpenClaw goes through the phases in order and
\* returns either one of the six outcomes, after all five phases and one
\* POST, or, when http.begin fails in Connecting, the initialisation
\* failure, without a POST.
C8_ExchangeStateMachine ==
    /\ path = Prefix(FullPath, Len(path))
    /\ Returned =>
          \/ path = FullPath /\ reply \in SixOutcomes /\ Len(evPosts) = 1
          \/ /\ path = Prefix(FullPath, 2)
             /\ reply = HttpBeginFailure
             /\ reply \notin SixOutcomes
             /\ evPosts = <<>>

C8_Witness ==
    /\ Returned
    /\ path = FullPath
    /\ reply = SchemaError
    /\ evPosts = <<trimmed>>

\* C9: a PromptEvent is POSTed once at most, with its own prompt, whatever
\* the outcome; nothing is POSTed outside a PromptEvent.
C9_NoRetry ==
    /\ Len(evPosts) <= 1
    /\ evPosts # <<>> => (evSrc \in {"serial", "button"} /\ evPosts = <<trimmed>>)
    /\ Classified => Len(evPosts) = 1

C9_Witness ==
    /\ Classified
    /\ reply = TransportError(-1)
    /\ evPosts = <<trimmed>>

(***************************************************************************)
(* Properties of the connectivity manager.                                 *)
(***************************************************************************)
\* connectWifiBlocking has not been called yet or is running
InWifi == pc \in {"setup", "ConnectivityCheck", "WifiPoll"}

\* C10: connectWifiBlocking entered with the link connected returns at once
\* and calls neither WiFi.mode, WiFi.begin nor WiFi.disconnect; and whenever
\* it has returned, the status it read last was WL_CONNECTED.
C10_NoOpWhenConnected ==
    /\ [](~InWifi => wifiStatus = WL_CONNECTED)
    /\ [][(pc = "ConnectivityCheck" /\ wifiStatus' = WL_CONNECTED) =>
             /\ pc' \in {"serial", "Connecting"}
             /\ wifiMode' = wifiMode
             /\ wifiCalls' = <<>>
             /\ attempts' = attempts
             /\ clock' = clock]_vars

C10_Witness ==
    /\ pc = "Connecting"
    /\ wifiStatus = WL_CONNECTED
    /\ wifiCalls = <<>>
    /\ wifiMode = "WIFI_STA"

\* connectWifiBlocking is running
Associating == pc \in {"ConnectivityCheck", "WifiPoll"}

\* C11: connectWifiBlocking leaves its loop only on a poll that reports the
\* link connected, and produces no result for its caller; a poll that finds
\* the link down is followed by another poll however many retries were
\* forced before; and if a call that keeps polling is eventually told that
\* the link is connected, every call returns.
C11_RetriesForeverUntilConnected ==
    /\ [][Associating =>
             /\ wifiStatus' # WL_CONNECTED => pc' = "WifiPoll"
             /\ wifiStatus' = WL_CONNECTED => pc' = AfterWifi(caller)
             /\ reply' = reply]_vars
    /\ [](pc = "WifiPoll" => ENABLED WifiPollCycle("WL_DISCONNECTED"))
    /\ Associating ~> ~Associating

C11_Witness ==
    /\ pc = "Connecting"
    /\ caller = "serial"
    /\ wifiStatus = WL_CONNECTED
    /\ Len(wifiCalls) = 2 + 2 * MaxRetryLog

(***************************************************************************)
(* Properties of the orchestrator.                                         *)
(***************************************************************************)
ExchangePhases ==
    {"ConnectivityCheck", "WifiPoll", "Connecting", "Sending",
     "AwaitingResponse", "Classifying"}

\* askOpenClaw has been called by runPrompt and has not returned
InFlight == caller \in {"serial", "button"} /\ pc \in ExchangePhases

\* C12: while askOpenClaw runs, no step polls a producer (nothing is read
\* from the serial line, the pin is not sampled), none starts another
\* exchange (the prompt, its producer and its line stay, one POST at most is
\* made and it carries that prompt), none changes g_inputLine, g_bootLatched
\* or g_lastBootEdgeMs, and every step leads to a later phase of the same
\* exchange or to its return.
C12_OneExchangeNotPreempted ==
    [][InFlight =>
          /\ UNCHANGED <<g_inputLine, g_bootLatched, g_lastBootEdgeMs>>
          /\ UNCHANGED <<fed, prevLevel, lastFallAt, lastButtonAt>>
          /\ UNCHANGED <<trimmed, evSrc, evLine, caller>>
          /\ evPosts' \in {evPosts, <<trimmed>>}
          /\ Len(evPosts') <= 1
          /\ InFlight' \/ pc' = "Return"]_vars

C12_Witness ==
    /\ InFlight
    /\ pc = "Classifying"
    /\ caller = "button"
    /\ g_bootLatched
    /\ g_lastBootEdgeMs < clock
    /\ g_inputLine = <<"a", "a">>
    /\ wifiCalls # <<>>

\* the producers of PromptEvents, as the log of the tick names them
Producers == {"serial", "button"}

\* C13: within a tick every POST is that of the PromptEvent observed just
\* before it (none is duplicated, none waits behind another), the POST
\* carries the prompt of that event, serial lines come in the order their
\* newlines are read, a character is read or a new event observed only when
\* no event is running, and after the button PromptEvent of a tick nothing
\* but its own POST happens in that tick.
C13_TickOrder ==
    /\ [](\A i \in DOMAIN tickLog :
            /\ tickLog[i] \in Producers \cup {"post"}
            /\ tickLog[i] = "post" => (i > 1 /\ tickLog[i - 1] \in Producers)
            /\ tickLog[i] = "button" =>
                  \A j \in DOMAIN tickLog :
                      j > i => (j = i + 1 /\ tickLog[j] = "post"))
    /\ []((evSrc # None /\ trimmed # <<>> /\ Len(tickLog) < MaxTickLog) =>
            /\ tickLog # <<>>
            /\ IF PostIssued
               THEN /\ Len(tickLog) > 1
                    /\ tickLog[Len(tickLog)] = "post"
                    /\ tickLog[Len(tickLog) - 1] = evSrc
               ELSE tickLog[Len(tickLog)] = evSrc)
    /\ [][(fed' # fed \/ evSrc' \notin {evSrc, None}) =>
             (evSrc = None /\ pc \in {"serial", "button"})]_vars
    /\ [][evPosts' \notin {evPosts, <<>>} =>
             /\ evPosts' = <<trimmed>>
             /\ trimmed = IF evSrc = "serial" THEN StripCR(evLine)
                          ELSE OPENCLAW_BUTTON_PROMPT]_vars

C13_Witness ==
    /\ tickLog = <<"serial", "post", "button", "post">>
    /\ pc = "Classifying"
    /\ caller = "button"
    /\ evPosts = <<OPENCLAW_BUTTON_PROMPT>>

ErrorKinds ==
    {"TransportError", "HttpError", "ParseError", "GatewayError",
     "SchemaError"}

\* the exchange that has just returned to runPrompt ended in one of the errors
EndedInError == Classified /\ OutcomeOf(reply) \in ErrorKinds

\* C14: an exchange that ended in one of the five errors returns to the
\* polling loop (to the serial loop or to the delay of the tick, as any
\* exchange does) leaving the input state as it was; and from then on a
\* newline read with a non-empty g_inputLine and a recognised button press
\* each call runPrompt with their prompt and start an exchange, whose POST
\* carries that prompt.
C14_ErrorsAreNotFatal ==
    /\ [](pc \in {"setup", "serial", "button", "delay", "Return"}
              \cup ExchangePhases)
    /\ [][EndedInError =>
             /\ pc' = IF caller = "serial" THEN "serial" ELSE "delay"
             /\ lastOutcome' \in ErrorKinds
             /\ UNCHANGED <<g_inputLine, g_bootLatched, g_lastBootEdgeMs,
                            wifiStatus, clock>>]_vars
    /\ [][(lastOutcome \in ErrorKinds /\ pc = "serial" /\ evSrc' = "serial"
              /\ g_inputLine # <<>>) =>
             (pc' = "ConnectivityCheck" /\ trimmed' = g_inputLine)]_vars
    /\ [][(lastOutcome \in ErrorKinds /\ pc = "button"
              /\ PressRecognised(prevLevel', g_bootLatched,
                                  ElapsedSinceEdge(clock, g_lastBootEdgeMs))) =>
             (pc' = "ConnectivityCheck" /\ evSrc' = "button"
              /\ trimmed' = OPENCLAW_BUTTON_PROMPT)]_vars
    /\ []((lastOutcome \in ErrorKinds /\ PostIssued) =>
             (evPosts = <<trimmed>> /\ trimmed # <<>>))

C14_Witness ==
    /\ lastOutcome = "ParseError"
    /\ pc = "Return"
    /\ Classified
    /\ evSrc = "button"
    /\ evPosts = <<OPENCLAW_BUTTON_PROMPT>>
    /\ reply = Reply("hi")

\* askOpenClaw is past connectWifiBlocking
PastCheck == pc \in {"Connecting", "Sending", "AwaitingResponse", "Classifying"}

\* C15 as stated: however the link behaves around the exchange, also when it
\* drops after the connectivity check, the result handed to runPrompt is not
\* the failure of a POST that could not be made for want of a link.
C15_AsStated ==
    (Classified /\ wifiStatus # WL_CONNECTED) =>
        OutcomeOf(reply) # "TransportError"

\* C15, amended: a link that is down when askOpenClaw makes its connectivity
\* check is not surfaced: connectWifiBlocking produces no result and
\* askOpenClaw goes on only once the link is reported connected, however
\* many polls that takes.  A link that drops after the check is not
\* retried: askOpenClaw never goes back to connectWifiBlocking, the POST
\* fails and the result is TransportError with the code of the POST.
C15_DownLinkBlocksOnlyAtCheck ==
    /\ [][Associating =>
             /\ reply' = reply
             /\ pc' # "Return"
             /\ pc' # "WifiPoll" => wifiStatus' = WL_CONNECTED]_vars
    /\ [][PastCheck => ~Associating']_vars
    /\ []((Classified /\ code <= 0) => reply = TransportError(code))
    /\ []((pc = "Classifying" /\ wifiStatus # WL_CONNECTED /\ code > 0) =>
             \E rsp \in LinkUpResponses : code = rsp[1] /\ raw = rsp[2])

C15_Witness ==
    /\ Classified
    /\ caller = "serial"
    /\ wifiCalls = <<"mode", "begin">>
    /\ clock > LinkHorizon + kWifiPollMs
    /\ wifiStatus # WL_CONNECTED
    /\ reply = TransportError(-1)

(***************************************************************************)
(* Properties of the device identity.                                      *)
(***************************************************************************)
\* the value a string of hexadecimal digits denotes, -1 if it is none
HexValue(c) ==
    IF \E i \in 1..16 : HexDigits[i] = c
    THEN (CHOOSE i \in 1..16 : HexDigits[i] = c) - 1
    ELSE 0 - 1

RECURSIVE ParseHex(_)
ParseHex(text) ==
    IF text = <<>> THEN 0
    ELSE ParseHex(SubSeq(text, 1, Len(text) - 1)) * 16
         + HexValue(text[Len(text)])

UpperHex(text) == \A i \in DOMAIN text : HexValue(text[i]) >= 0

\* setup has run
Identified == pc # "setup"

\* C16 as stated: the identifier is 16 uppercase hexadecimal characters, the
\* zero-padded high 16 bits of the 64-bit value followed by its low 32 bits.
C16_AsStated ==
    Identified =>
        /\ Len(g_deviceId) = 16
        /\ UpperHex(g_deviceId)
        /\ ParseHex(SubSeq(g_deviceId, 1, 4)) = efuseMac[1]

\* C16, amended: the identifier is 12 uppercase hexadecimal characters: four
\* digits for bits 32..47 of the 64-bit value (the high 16 bits of a 48-bit
\* identifier) and eight for its low 32 bits, both zero-padded; bits 48..63
\* do not appear; the session key is "agent:", the agent id,
\* ":openai:esp32-" and the identifier, and neither changes after setup.
C16_DeviceIdIsTwelveHexDigits ==
    /\ [](Identified =>
            /\ Len(g_deviceId) = 12
            /\ UpperHex(g_deviceId)
            /\ ParseHex(SubSeq(g_deviceId, 1, 4)) = efuseMac[2]
            /\ ParseHex(SubSeq(g_deviceId, 5, 8)) = efuseMac[3]
            /\ ParseHex(SubSeq(g_deviceId, 9, 12)) = efuseMac[4]
            /\ g_sessionKey =
                  <<"agent:", "main", ":openai:esp32-">> \o g_deviceId)
    /\ [][Identified => UNCHANGED <<g_deviceId, g_sessionKey>>]_vars

C16_Witness ==
    /\ pc = "delay"
    /\ efuseMac = <<65535, 1, 0, 43981>>
    /\ g_deviceId =
          <<"0", "0", "0", "1", "0", "0", "0", "0", "A", "B", "C", "D">>
    /\ Len(g_sessionKey) = 15

(***************************************************************************)
(* More properties of the button producer.  In a step of handleBootButton  *)
(* the level read is prevLevel' and the time read is clock.                *)
(***************************************************************************)
SinceEdge == clock - g_lastBootEdgeMs

ButtonEventEmitted ==
    /\ evSrc' = "button"
    /\ trimmed' = OPENCLAW_BUTTON_PROMPT
    /\ pc' = "ConnectivityCheck"

\* C17 as stated: a low level read with the latch clear and 60 ms or more
\* since the last recognised transition sets the latch, records the time and
\* emits one PromptEvent in that poll; a high level read with the latch set
\* and 60 ms or more since then clears the latch and records the time.
C17_AsStated ==
    [][pc = "button" =>
          /\ (prevLevel' = LOW /\ ~g_bootLatched /\ SinceEdge >= 60) =>
                (g_bootLatched' /\ g_lastBootEdgeMs' = clock
                 /\ ButtonEventEmitted)
          /\ (prevLevel' = HIGH /\ g_bootLatched /\ SinceEdge >= 60) =>
                (~g_bootLatched' /\ g_lastBootEdgeMs' = clock)]_vars

\* C17, amended: the same with more than 60 ms (elapsed > 60) in both
\* directions; a poll made 60 ms or less after the last recognised
\* transition, 60 ms exactly included, changes neither the latch nor the
\* recorded time and emits nothing.
C17_GuardIsStrict ==
    [][pc = "button" =>
          /\ (prevLevel' = LOW /\ ~g_bootLatched /\ SinceEdge > 60) =>
                (g_bootLatched' /\ g_lastBootEdgeMs' = clock
                 /\ ButtonEventEmitted)
          /\ (prevLevel' = HIGH /\ g_bootLatched /\ SinceEdge > 60) =>
                (~g_bootLatched' /\ g_lastBootEdgeMs' = clock
                 /\ evSrc' = None /\ pc' = "delay")
          /\ SinceEdge <= 60 =>
                (UNCHANGED <<g_bootLatched, g_lastBootEdgeMs>>
                 /\ evSrc' = None /\ pc' = "delay")]_vars

\* the third press-or-release in a row recognised at the first poll that
\* passes the guard, 70 ms after the one before
C17_Witness ==
    /\ pc = "ConnectivityCheck"
    /\ caller = "button"
    /\ g_bootLatched
    /\ g_lastBootEdgeMs = clock
    /\ buttonGap = 140

(***************************************************************************)
(* More properties of the connectivity manager.                            *)
(***************************************************************************)
\* the time at which the running connectWifiBlocking was called: the end of
\* the delay of setup, or the poll of the button press that started the
\* exchange
WifiEntry == IF caller = "setup" THEN 500 ELSE g_lastBootEdgeMs

\* forced retries of the running connectWifiBlocking, by its driver calls
ForcedRetries == (Len(wifiCalls) - 2) \div 2

\* C18: in the loop of connectWifiBlocking the counter is the number of
\* consecutive polls that found the link down since WiFi.begin was last
\* called and lies in 0..79 between polls (80 is reached only to be reset,
\* far below 255); polls are 500 ms apart; the disconnect-and-begin cycle is
\* forced at the 80th such poll and at no other, 40 s after the begin, and
\* takes 500 ms more.
C18_RetryCadence ==
    /\ [](attempts \in 0..79)
    /\ [](pc = "WifiPoll" =>
            /\ Len(wifiCalls) >= 2
            /\ \A i \in DOMAIN wifiCalls :
                  wifiCalls[i] = IF i = 1 THEN "mode"
                                 ELSE IF i % 2 = 0 THEN "begin"
                                 ELSE "disconnect"
            /\ clock - WifiEntry = 500 * attempts + 40500 * ForcedRetries)
    /\ [][(pc = "WifiPoll" /\ pc' = "WifiPoll") =>
             IF attempts = 79
             THEN /\ attempts' = 0
                  /\ wifiCalls' = wifiCalls \o <<"disconnect", "begin">>
                  /\ clock' = clock + 1000
             ELSE /\ attempts' = attempts + 1
                  /\ wifiCalls' = wifiCalls
                  /\ clock' = clock + 500]_vars

C18_Witness ==
    /\ pc = "WifiPoll"
    /\ caller = "setup"
    /\ wifiCalls = <<"mode", "begin", "disconnect", "begin">>
    /\ attempts = 2
    /\ clock = 42000

(***************************************************************************)
(* The release and the held button.                                        *)
(***************************************************************************)
\* C19: a poll that reads the pin high emits no PromptEvent, and when it
\* recognises the release it changes the latch and the recorded time and
\* nothing else of the program's state; a poll that reads the pin low while
\* the latch is set changes nothing and emits nothing, however long ago the
\* press was recognised and whether or not an exchange has run since; so no
\* more than one PromptEvent is emitted between two recognised releases.
C19_ReleaseAndHoldEmitNothing ==
    /\ [][(pc = "button" /\ prevLevel' = HIGH) =>
             /\ evSrc' = None
             /\ pc' = "delay"
             /\ UNCHANGED <<g_inputLine, clock, wifiVars, callVars, histVars,
                            lastButtonAt, buttonGap>>
             /\ g_bootLatched' # g_bootLatched =>
                   (g_bootLatched /\ g_lastBootEdgeMs' = clock)]_vars
    /\ [][(pc = "button" /\ prevLevel' = LOW /\ g_bootLatched) =>
             /\ evSrc' = None
             /\ pc' = "delay"
             /\ UNCHANGED <<g_bootLatched, g_lastBootEdgeMs, g_inputLine,
                            clock, wifiVars, callVars, histVars,
                            lastButtonAt, buttonGap>>]_vars
    /\ [](pressEvents <= 1)
    /\ [](g_bootLatched => (lastButtonAt = g_lastBootEdgeMs
                            /\ pressEvents = 1))

\* the button still held 150 ms after the press, an exchange of 70 ms
\* having run meanwhile
C19_Witness ==
    /\ pc = "delay"
    /\ prevLevel = LOW
    /\ g_bootLatched
    /\ pressEvents = 1
    /\ lastOutcome = "Reply"
    /\ clock - g_lastBootEdgeMs >= 150
    /\ lastFallAt = g_lastBootEdgeMs

(***************************************************************************)
(* Empty prompts.                                                          *)
(***************************************************************************)
\* runPrompt is running with an empty prompt
EmptyEvent == evSrc # None /\ trimmed = <<>>

\* a step that calls runPrompt with an empty prompt
EmptyCall == evSrc = None /\ evSrc' # None /\ trimmed' = <<>>

\* C20 as stated: a runPrompt called with an empty prompt, by a newline or
\* by a button press, returns without connectivity check and without POST,
\* and g_inputLine is empty.
C20_AsStated ==
    EmptyEvent =>
        (pc = "Return" /\ path = <<>> /\ evPosts = <<>> /\ g_inputLine = <<>>)

\* C20, amended: a runPrompt called with an empty prompt returns at once,
\* without reading WiFi.status() or calling the driver, without POST,
\* without a reply printed, in no time; called by a newline (empty line or
\* carriage returns only) it leaves g_inputLine empty; called by a button
\* press it leaves g_inputLine as it was, with the characters of an
\* unfinished line if there are any, the press being latched and timed as
\* any other.
C20_EmptyPromptIsDropped ==
    /\ [](EmptyEvent => (pc = "Return" /\ path = <<>> /\ evPosts = <<>>))
    /\ []((EmptyEvent /\ evSrc = "serial") =>
             (g_inputLine = <<>> /\ StripCR(evLine) = <<>>))
    /\ [][EmptyCall =>
             /\ UNCHANGED <<clock, wifiVars, histVars>>
             /\ evSrc' = "button" =>
                   /\ g_inputLine' = g_inputLine
                   /\ g_bootLatched'
                   /\ g_lastBootEdgeMs' = clock]_vars
    /\ [][EmptyEvent =>
             /\ UNCHANGED <<clock, wifiVars, histVars, g_inputLine,
                            g_bootLatched, g_lastBootEdgeMs>>
             /\ pc' = IF evSrc = "serial" THEN "serial" ELSE "delay"
             /\ evSrc' = None]_vars

C20_Witness ==
    /\ EmptyEvent
    /\ evSrc = "serial"
    /\ evLine = <<CR, CR>>
    /\ g_inputLine = <<>>
    /\ wifiCalls = <<"mode", "begin">>
    /\ lastOutcome = "TransportError"

====
